---- MODULE Spec2Model ----
(***************************************************************************)
(* Photon generation of the photon_simulator package: the three photon     *)
(* models of photon_models.py (ThermalPhotonModel, PowerLawModel,          *)
(* LineEmissionModel) and concatenate_photons; the constructor of          *)
(* LineEmissionModel; validate_parameters and merge_files of utils.py.     *)
(* The parameters of a file are whole numbers, its groups are read in the  *)
(* sorted order of their names.                                            *)
(*                                                                         *)
(* Numbers.  Real quantities are held as integers:                         *)
(*   - an expected photon count and a uniform draw are counted in quarters *)
(*     (the value 6 is 1.5), so np.modf is \div 4 and % 4;                 *)
(*   - a spectrum buffer that the code normalises in place is a pair       *)
(*     [v |-> numerators, d |-> denominator], exact rational arithmetic;   *)
(*   - temperatures are integers, and a bin edge kT_min + b*dkT is compared*)
(*     by cross multiplication.                                            *)
(* Integer index arithmetic is that of Python ints.  The unit algebra of   *)
(* the yt library is not modelled: an operation fails here only for the    *)
(* values and shapes of its operands.  A photon energy is held as a record *)
(* saying for which cell and from which distribution it was drawn.  The    *)
(* temperature grid is scaled down: n_kT bins of width 1 or 2 instead of   *)
(* 10000 bins over [0.0808, 50] keV.                                       *)
(***************************************************************************)
EXTENDS Integers, Sequences, FiniteSets, TLC

(* ---------------------------------------------------------------- bounds *)
\* chunks the data source yields at most
MaxChunks == 2
\* cells in one chunk at most
MaxCells == 2
\* ThermalPhotonModel(photons_per_chunk=...): capacity of the energy buffer
photons_per_chunk == 3
\* active cells followed in the comparison of the two sampling methods
MaxActive == 4
\* input files of merge_files at most
MaxFiles == 2

(* ------------------------------------------------------ program constants *)
\* number of temperature bins (scaled down from 10000)
n_kT == 3
\* lower edge of the temperature grid (scaled units)
kT_min == 1
\* least upper edge of the temperature grid (scaled units)
kT_max == 4
\* number of channels of the spectral model, len(emid)
nchan == 2

\* values a cell's temperature takes; 0 is below kT_min
kTValues == {0, 4, 7}
\* dataset maxima of kT (data_source.quantities.extrema): at or above kT_max
kTMaxima == {4, 7}
\* EM*spectral_norm of a cell
EMValues == {0, 1}
\* metallicities
ZValues == {0, 1}
\* uniform draws in quarters: 0.0 and 0.5
UValues == {0, 2}
\* expected counts of a power-law or line cell, in quarters: 0, 0.25 and 2
LamValues == {0, 1, 8}
\* the constant metallicity of ThermalPhotonModel(Zmet=<float>)
ZmetConst == 1

PerCellKeys == {"x", "y", "z", "vx", "vy", "vz", "dx"}
AllKeys == {"NumberOfPhotons", "Energy"} \cup PerCellKeys

(* --------------------------------------------------------------- helpers *)
RECURSIVE SeqSum(_)
SeqSum(s) == IF s = <<>> THEN 0 ELSE Head(s) + SeqSum(Tail(s))

RECURSIVE Flatten(_)
\* uconcatenate / np.concatenate of a list of arrays
Flatten(ss) == IF ss = <<>> THEN <<>> ELSE Head(ss) \o Flatten(Tail(ss))

\* a[mask]: the entries of a at the positions where keep holds, in order
RECURSIVE Select(_, _)
Select(a, keep) ==
    IF a = <<>> THEN <<>>
    ELSE (IF Head(keep) THEN <<Head(a)>> ELSE <<>>) \o Select(Tail(a), Tail(keep))

\* a[i0:i1] with 0-based half-open Python bounds
Slice(a, i0, i1) == SubSeq(a, i0 + 1, IF i1 > Len(a) THEN Len(a) ELSE i1)

\* np.cumsum
Cumsum(a) == [i \in 1..Len(a) |-> SeqSum(SubSeq(a, 1, i))]

\* the global identity of cell i (1-based) of the k-th chunk
CellId(k, i) == (k - 1) * (MaxCells + 1) + i

(* ------------------------------------------------------- spectral model *)
\* get_spectrum(kT)[0] for the mid temperature of bin b (0-based): the
\* cosmic spectrum per channel; its total is positive
cosmic_spec(b) == <<1 + (b % 2), (b + 1) % 2>>
\* get_spectrum(kT)[1]: the metal spectrum per channel
metal_spec(b) == <<b % 2, IF b % 3 = 2 THEN 0 ELSE 1>>

(* ------------------------------------------------ photon count sampling *)
\* np.uint64(modf(lam)[1]) + np.uint64(modf(lam)[0] >= u), lam and u in quarters
StochasticRound(lam, u) == (lam \div 4) + (IF (lam % 4) >= u THEN 1 ELSE 0)

(* --------------------------------------------------- temperature binning *)
\* upper edge of the grid: max(my_kT_max.v, kT_max)
GridTop(mymax) == IF mymax > kT_max THEN mymax ELSE kT_max

\* np.digitize(kT, kT_bins): the number of edges kT_min + b*dkT, b in 0..n_kT,
\* that are <= kT, with dkT = (top - kT_min) / n_kT
Digitize(kT, mymax) ==
    Cardinality({b \in 0..n_kT : kT_min * n_kT + b * (GridTop(mymax) - kT_min) <= kT * n_kT})

\* the lower edge of the bin instead of its middle
kT_edge(b, mymax) == 2 * n_kT * kT_min + 2 * b * (GridTop(mymax) - kT_min)

\* line 184: kT = kT_bins[ikT] + 0.5*dkT for the bin b (0-based), as a
\* numerator over 2*n_kT
kT_mid(b, mymax) == 2 * n_kT * kT_min + (2 * b + 1) * (GridTop(mymax) - kT_min)

\* np.minimum(np.maximum(1, kT_idxs), n_kT) - 1
ClampBin(d) == (IF d < 1 THEN 1 ELSE IF d > n_kT THEN n_kT ELSE d) - 1

\* np.argsort(kT): a permutation that sorts; the order of ties is not fixed
ArgSorts(kT) ==
    {p \in [1..Len(kT) -> 1..Len(kT)] :
        /\ \A i, j \in 1..Len(kT) : i # j => p[i] # p[j]
        /\ \A i \in 1..Len(kT) - 1 : kT[p[i]] <= kT[p[i + 1]]}

\* the values of a that lie in b..n_kT-1, ascending, each once
RECURSIVE UniqueFrom(_, _)
UniqueFrom(a, b) ==
    IF b > n_kT - 1 THEN <<>>
    ELSE (IF \E i \in 1..Len(a) : a[i] = b THEN <<b>> ELSE <<>>) \o UniqueFrom(a, b + 1)

\* np.unique(kT_idxs): the distinct bin indices, ascending
Unique(a) == UniqueFrom(a, 0)

\* np.bincount(kT_idxs) from bin b on, without the zero counts
RECURSIVE BinCountsFrom(_, _)
BinCountsFrom(a, b) ==
    IF b > n_kT - 1 THEN <<>>
    ELSE (IF \E i \in 1..Len(a) : a[i] = b
          THEN <<Cardinality({i \in 1..Len(a) : a[i] = b})>> ELSE <<>>)
         \o BinCountsFrom(a, b + 1)

\* bcounts[bcounts > 0]: the cell count of every non-empty bin, ascending
BinCounts(a) == BinCountsFrom(a, 0)

\* bcell: the running sum n before each bcount
BCell(bc) == [j \in 1..Len(bc) |-> SeqSum(SubSeq(bc, 1, j - 1))]
\* ecell without the running sum
ECellCounts(bc) == bc

\* ecell: n + bcount
ECell(bc) == [j \in 1..Len(bc) |-> SeqSum(SubSeq(bc, 1, j))]

(* -------------------------------------------------- spectrum buffers *)
\* a float array held exactly: entry i is v[i] / d
Buf(a) == [v |-> a, d |-> 1]
\* buf += Z * m, in place, m an array of integers
AddScaled(buf, Z, m) ==
    [v |-> [i \in 1..Len(buf.v) |-> buf.v[i] + Z * m[i] * buf.d], d |-> buf.d]
\* buf *= 1.0 / s for s = t / buf.d, t the numerator of the divisor
Scale(buf, t) == [v |-> buf.v, d |-> t]
\* np.insert(np.cumsum(a), 0, 0.0)
CumInsert(a) == <<0>> \o Cumsum(a)

\* lines 212-215: cumspec_c and cumspec_m of a spectrum
CumSpec(a) == CumInsert(a)

\* lines 227-230: cumspec = cumspec_c; cumspec += Z*cumspec_m;
\* cumspec *= 1/cumspec[-1].  cumspec is cumspec_c itself, not a copy: the
\* result is also the new value of cumspec_c
InvertCdfCell(cumspec_c, cumspec_m, Z) ==
    LET s == AddScaled(cumspec_c, Z, cumspec_m)
    IN Scale(s, s.v[Len(s.v)])

\* tot_spec += mspec.d, the metallicity dropped
AcceptRejectCellNoZ(cspec, mspec, Z) ==
    LET s == AddScaled(cspec, 1, mspec)
    IN Scale(s, SeqSum(s.v))

\* lines 235-238: tot_spec = cspec.d; tot_spec += Z*mspec.d;
\* tot_spec *= 1/tot_spec.sum().  cspec.d is a view of cspec: the result is
\* also the new value of cspec
AcceptRejectCell(cspec, mspec, Z) ==
    LET s == AddScaled(cspec, Z, mspec)
    IN Scale(s, SeqSum(s.v))

(* ----------------------------------------------------------------- state *)
VARIABLES
    model,              \* "thermal", "powerlaw" or "line": the class of the model
    method,             \* ThermalPhotonModel.method
    zmetField,          \* ThermalPhotonModel.Zmet is a field name (TRUE) or a float
    indexField,         \* PowerLawModel.index is a field name (TRUE) or a float
    sigmaKind,          \* LineEmissionModel.sigma: "none", "const" or "field"
    pc,                 \* position of __call__
    err,                \* the exception __call__ ended with, "" for none
    nchunks,            \* chunks taken from the data source so far
    photons,            \* the table under construction, then the returned one
    sampled,            \* per cell id, the count sampled for it
    my_kT_max,          \* data_source.quantities.extrema("kT")[1]
    chunk,              \* thermal: the cells of the current chunk
    idxs,               \* thermal: np.argsort(kT)
    bins,               \* thermal: bcell, ecell and the unique kT_idxs
    jbin,               \* thermal: position of the loop over the bins
    ipos,               \* thermal: position of the loop over the cells of a bin
    lam,                \* the expected counts that were rounded in the current chunk,
                        \* per sorted position (thermal) or per cell (the others)
    number_of_photons,  \* thermal: per sorted position, the sampled count
    energies,           \* thermal: the per-chunk energy buffer
    start_e,            \* thermal
    end_e,              \* thermal and powerlaw; -1 while the name is unbound
    ei,                 \* thermal: write position in energies
    hi_write,           \* thermal: one past the highest index of energies written
    cspec,              \* thermal: get_spectrum()[0], as left by the last cell
    mspec,              \* thermal: get_spectrum()[1]
    cumspec_c,          \* thermal, invert_cdf: as left by the last cell
    cumspec_m,          \* thermal, invert_cdf
    cell_e,             \* thermal: what the last sampled cell drew its energies from
    get_spectrum_calls, \* thermal: the kT of each get_spectrum call of the current
                        \* chunk, as numerators over 2*n_kT
    sigma,              \* LineEmissionModel(sigma=...): the argument as given
    first,              \* validate_parameters: the first input
    second,             \* validate_parameters: the second input
    skip,               \* validate_parameters: the names not compared
    input_files,        \* merge_files: the input files, in the order listed
    add_exposure_times, \* merge_files
    f_out,              \* merge_files: the output file
    prepare_spectrum_calls, \* thermal: calls of spectral_model.prepare_spectrum
    cleanup_spectrum_calls  \* thermal: calls of spectral_model.cleanup_spectrum

config == <<model, method, zmetField, indexField, sigmaKind, sigma>>
utilsVars == <<first, second, skip, input_files, add_exposure_times, f_out>>
thermalVars == <<chunk, idxs, bins, jbin, ipos, number_of_photons, energies,
                 start_e, ei, hi_write, cspec, mspec, cumspec_c, cumspec_m, cell_e,
                 get_spectrum_calls>>
lifecycle == <<prepare_spectrum_calls, cleanup_spectrum_calls>>
vars == <<config, utilsVars, lifecycle, pc, err, nchunks, photons, sampled, lam, my_kT_max, end_e, thermalVars>>

\* no buffer allocated, no spectrum fetched
NoBuf == [v |-> <<>>, d |-> 1]
\* no cell sampled yet in this bin
NoCell == [cell |-> 0, Z |-> 0, cn |-> 0, bin |-> 0]
NoBins == [bcell |-> <<>>, ecell |-> <<>>, kT_idxs |-> <<>>]

\* collections.defaultdict(list) with no key yet
EmptyTable == [k \in {} |-> <<>>]

\* photons[key].append(arr)
Append1(tab, key, arr) ==
    IF key \in DOMAIN tab THEN Append(tab[key], arr) ELSE <<arr>>

\* the nine appends that end the processing of a chunk
AppendChunk(tab, nph, en, cells) ==
    [k \in AllKeys |->
        Append1(tab, k, IF k = "NumberOfPhotons" THEN nph
                        ELSE IF k = "Energy" THEN en ELSE cells)]

\* photon_units, "" for the key that has none
photon_units(key) ==
    IF key = "NumberOfPhotons" THEN ""
    ELSE IF key = "Energy" THEN "keV"
    ELSE IF key \in {"vx", "vy", "vz"} THEN "km/s" ELSE "kpc"

\* concatenate_photons(photons): every key that is present is replaced
concatenate_photons(tab) ==
    [k \in DOMAIN tab |->
        IF Len(tab[k]) > 0 THEN [data |-> Flatten(tab[k]), units |-> photon_units(k)]
        ELSE [data |-> <<>>, units |-> photon_units(k)]]

ThermalIdle ==
    /\ chunk = <<>> /\ idxs = <<>> /\ bins = NoBins /\ jbin = 0 /\ ipos = 0
    /\ lam = <<>> /\ number_of_photons = <<>> /\ energies = <<>>
    /\ start_e = 0 /\ ei = 0 /\ hi_write = 0
    /\ cspec = NoBuf /\ mspec = <<>> /\ cumspec_c = NoBuf /\ cumspec_m = <<>>
    /\ cell_e = NoCell
    /\ get_spectrum_calls = <<>>

\* the per-chunk names hold nothing the next chunk reads
ThermalReset ==
    /\ chunk' = <<>> /\ idxs' = <<>> /\ bins' = NoBins /\ jbin' = 0 /\ ipos' = 0
    /\ lam' = <<>> /\ number_of_photons' = <<>> /\ energies' = <<>>
    /\ start_e' = 0 /\ ei' = 0 /\ hi_write' = 0
    /\ cspec' = NoBuf /\ mspec' = <<>> /\ cumspec_c' = NoBuf /\ cumspec_m' = <<>>
    /\ cell_e' = NoCell
    /\ get_spectrum_calls' = <<>>

\* a file that was not opened
NoFile == [parameters |-> EmptyTable, data |-> EmptyTable]

\* the spectral model was not called
NotCalled == prepare_spectrum_calls = 0 /\ cleanup_spectrum_calls = 0

\* validate_parameters and merge_files are not running
UtilsIdle ==
    /\ first = EmptyTable /\ second = EmptyTable /\ skip = {}
    /\ input_files = <<>> /\ add_exposure_times = FALSE /\ f_out = NoFile

\* the sigma argument that the constructor stores as the given kind: None, a
\* float (taken as keV) or a field name
SigmaOf(kind) ==
    [form |-> IF kind = "none" THEN "None" ELSE IF kind = "const" THEN "float" ELSE "field",
     dim |-> ""]

Init ==
    /\ model \in {"thermal", "powerlaw", "line"}
    /\ method \in (IF model = "thermal" THEN {"invert_cdf", "accept_reject"} ELSE {"invert_cdf"})
    /\ zmetField \in (IF model = "thermal" THEN BOOLEAN ELSE {FALSE})
    /\ indexField \in (IF model = "powerlaw" THEN BOOLEAN ELSE {TRUE})
    /\ sigmaKind \in (IF model = "line" THEN {"none", "const", "field"} ELSE {"none"})
    /\ sigma = SigmaOf(sigmaKind)
    /\ UtilsIdle
    /\ pc = "new"
    /\ err = ""
    /\ nchunks = 0
    /\ photons = EmptyTable
    /\ sampled = EmptyTable
    /\ my_kT_max = 0
    /\ end_e = -1
    /\ ThermalIdle
    /\ NotCalled

\* line 125: self.spectral_model.prepare_spectrum(redshift), of the thermal
\* model only; n counts the calls
PrepareSpectrum(m, n) == IF m = "thermal" THEN n + 1 ELSE n

\* lines 114-140, 312-322, 417-427: the prologue of __call__
Call ==
    /\ pc = "new"
    /\ pc' = "chunks"
    /\ my_kT_max' \in (IF model = "thermal" THEN kTMaxima ELSE {0})
    /\ photons' = EmptyTable
    /\ prepare_spectrum_calls' = PrepareSpectrum(model, prepare_spectrum_calls)
    /\ UNCHANGED <<config, utilsVars, cleanup_spectrum_calls, err, nchunks, sampled, lam,
                   end_e, thermalVars>>

(* -------------------------------------------------- ThermalPhotonModel *)
\* an entry of np.zeros(photons_per_chunk) that was not written
ZeroE == [cell |-> 0, Z |-> 0, kind |-> "zero"]

\* the cells a thermal chunk can hold: kT, EM*spectral_norm and the
\* metallicity field (read only when Zmet names a field)
ThermalCells ==
    [kT : {k \in kTValues : k <= my_kT_max}, EM : EMValues,
     Z : IF zmetField THEN ZValues ELSE {ZmetConst}]

\* lines 152-155: metalZ[p], p a 1-based index into the arrays of the chunk
metalZ(p) == IF zmetField THEN chunk[p].Z ELSE ZmetConst

\* line 174: cell_em[p] = EM[idxs][p] * spectral_norm
cell_em(p) == chunk[idxs[p]].EM

\* lines 197-199: cell_norm_c + cell_norm_m at sorted position p of a bin
\* whose spectra total tot_ph_c and tot_ph_m
cell_norm(p, tot_ph_c, tot_ph_m) ==
    tot_ph_c * cell_em(p) + tot_ph_m * metalZ(p) * cell_em(p)

\* the capacity check with >= for >
OverflowsAtCapacity(e) == e >= photons_per_chunk

\* line 206: the capacity check
Overflows(e) == e > photons_per_chunk

\* start_e left where it was
NextStartStale(s, e) == s

\* line 246: start_e after a bin
NextStart(s, e) == e

\* lines 142-147: a chunk without cells is skipped
ThermalSkipChunk ==
    /\ model = "thermal" /\ pc = "chunks" /\ nchunks < MaxChunks
    /\ nchunks' = nchunks + 1
    /\ UNCHANGED <<config, utilsVars, lifecycle, pc, err, photons, sampled, lam, my_kT_max, end_e, thermalVars>>

\* lines 144-180: sort, bin, allocate
ThermalBeginChunk ==
    /\ model = "thermal" /\ pc = "chunks" /\ nchunks < MaxChunks
    /\ \E n \in 1..MaxCells : \E cells \in [1..n -> ThermalCells] :
       \E p \in ArgSorts([i \in 1..n |-> cells[i].kT]) :
          LET kT_idxs == [i \in 1..n |-> ClampBin(Digitize(cells[p[i]].kT, my_kT_max))]
              bcounts == BinCounts(kT_idxs)
          IN /\ chunk' = cells
             /\ idxs' = p
             /\ bins' = [bcell |-> BCell(bcounts), ecell |-> ECell(bcounts),
                         kT_idxs |-> Unique(kT_idxs)]
             /\ number_of_photons' = [i \in 1..n |-> 0]
             /\ lam' = [i \in 1..n |-> -1]
    /\ energies' = [i \in 1..photons_per_chunk |-> ZeroE]
    /\ start_e' = 0 /\ end_e' = 0 /\ ei' = 0 /\ hi_write' = 0
    /\ jbin' = 1 /\ ipos' = 0
    /\ nchunks' = nchunks + 1
    /\ pc' = "bin"
    /\ UNCHANGED <<config, utilsVars, lifecycle, err, photons, sampled, my_kT_max,
                   cspec, mspec, cumspec_c, cumspec_m, cell_e, get_spectrum_calls>>

\* lines 182-217: one bin up to its loop over the cells: the spectrum, the
\* counts of the cells of the bin, the capacity check
ThermalBin ==
    /\ model = "thermal" /\ pc = "bin" /\ jbin <= Len(bins.bcell)
    /\ LET ibegin == bins.bcell[jbin]
           iend == bins.ecell[jbin]
           ikT == bins.kT_idxs[jbin]
           tot_ph_c == SeqSum(cosmic_spec(ikT))
           tot_ph_m == SeqSum(metal_spec(ikT))
       IN \E u \in [ibegin + 1..iend -> UValues] :
          LET cn(p) == StochasticRound(cell_norm(p, tot_ph_c, tot_ph_m), u[p])
              total == SeqSum([q \in 1..iend - ibegin |-> cn(ibegin + q)])
          IN /\ number_of_photons' =
                  [p \in 1..Len(number_of_photons) |->
                      IF p > ibegin /\ p <= iend THEN cn(p) ELSE number_of_photons[p]]
             /\ lam' = [p \in 1..Len(lam) |->
                      IF p > ibegin /\ p <= iend THEN cell_norm(p, tot_ph_c, tot_ph_m)
                      ELSE lam[p]]
             /\ sampled' = [c \in DOMAIN sampled \cup
                                  {CellId(nchunks, idxs[p]) : p \in ibegin + 1..iend} |->
                      IF \E p \in ibegin + 1..iend : c = CellId(nchunks, idxs[p])
                      THEN cn(CHOOSE p \in ibegin + 1..iend : c = CellId(nchunks, idxs[p]))
                      ELSE sampled[c]]
             /\ end_e' = end_e + total
             /\ get_spectrum_calls' = Append(get_spectrum_calls, kT_mid(ikT, my_kT_max))
             /\ IF Overflows(end_e + total)
                THEN /\ pc' = "raised" /\ err' = "RuntimeError"
                     /\ UNCHANGED <<cspec, mspec, cumspec_c, cumspec_m, ei, ipos, cell_e>>
                ELSE /\ pc' = "cell" /\ err' = err
                     /\ cspec' = Buf(cosmic_spec(ikT))
                     /\ mspec' = metal_spec(ikT)
                     /\ cumspec_c' = IF method = "invert_cdf"
                                     THEN Buf(CumSpec(cosmic_spec(ikT))) ELSE NoBuf
                     /\ cumspec_m' = IF method = "invert_cdf"
                                     THEN CumSpec(metal_spec(ikT)) ELSE <<>>
                     /\ ei' = start_e
                     /\ ipos' = ibegin + 1
                     /\ cell_e' = NoCell
    /\ UNCHANGED <<config, utilsVars, lifecycle, nchunks, photons, my_kT_max, chunk, idxs, bins, jbin,
                   energies, start_e, hi_write>>

\* lines 218-244: one cell of the bin
ThermalCell ==
    /\ model = "thermal" /\ pc = "cell" /\ ipos <= bins.ecell[jbin]
    /\ LET cn == number_of_photons[ipos]
           Z == metalZ(ipos)
       IN IF cn = 0
          THEN UNCHANGED <<pc, err, energies, ei, hi_write, cspec, cumspec_c, cell_e>>
          ELSE /\ IF method = "invert_cdf"
                  THEN /\ cumspec_c' = InvertCdfCell(cumspec_c, cumspec_m, Z)
                       /\ cspec' = cspec
                  ELSE /\ cspec' = AcceptRejectCell(cspec, mspec, Z)
                       /\ cumspec_c' = cumspec_c
               /\ cell_e' = [cell |-> CellId(nchunks, idxs[ipos]), Z |-> Z, cn |-> cn,
                             bin |-> bins.kT_idxs[jbin]]
               /\ IF ei + cn > Len(energies)
                  THEN /\ pc' = "raised" /\ err' = "ValueError"
                       /\ UNCHANGED <<energies, ei, hi_write>>
                  ELSE /\ energies' = [i \in 1..Len(energies) |->
                              IF i > ei /\ i <= ei + cn
                              THEN [cell |-> CellId(nchunks, idxs[ipos]), Z |-> Z,
                                    kind |-> method]
                              ELSE energies[i]]
                       /\ ei' = ei + cn
                       /\ hi_write' = IF ei + cn > hi_write THEN ei + cn ELSE hi_write
                       /\ UNCHANGED <<pc, err>>
    /\ ipos' = ipos + 1
    /\ UNCHANGED <<config, utilsVars, lifecycle, nchunks, photons, sampled, my_kT_max, end_e, chunk, idxs,
                   bins, jbin, lam, number_of_photons, start_e, mspec, cumspec_m,
                   get_spectrum_calls>>

\* line 246: the bin is done
ThermalEndBin ==
    /\ model = "thermal" /\ pc = "cell" /\ ipos > bins.ecell[jbin]
    /\ start_e' = NextStart(start_e, end_e)
    /\ jbin' = jbin + 1
    /\ pc' = "bin"
    /\ UNCHANGED <<config, utilsVars, lifecycle, err, nchunks, photons, sampled, my_kT_max, end_e, chunk,
                   idxs, bins, ipos, lam, number_of_photons, energies, ei, hi_write,
                   cspec, mspec, cumspec_c, cumspec_m, cell_e, get_spectrum_calls>>

\* the mask applied to the chunk's own order instead of idxs
ThermalActiveUnsorted(k, ix, nph) ==
    Select([p \in 1..Len(ix) |-> CellId(k, p)], [p \in 1..Len(nph) |-> nph[p] > 0])

\* line 248-249: idxs[active_cells], as cell identities of chunk k
ThermalActive(k, ix, nph) ==
    Select([p \in 1..Len(ix) |-> CellId(k, ix[p])], [p \in 1..Len(nph) |-> nph[p] > 0])

\* the whole buffer instead of energies[:end_e]
ThermalEnergyWhole(en, e) == en

\* line 252: energies[:end_e]
ThermalEnergy(en, e) == Slice(en, 0, e)

\* lines 248-259: the partial table of the chunk is appended
ThermalEndChunk ==
    /\ model = "thermal" /\ pc = "bin" /\ jbin > Len(bins.bcell)
    /\ photons' = AppendChunk(photons,
                      Select(number_of_photons,
                             [p \in 1..Len(number_of_photons) |-> number_of_photons[p] > 0]),
                      ThermalEnergy(energies, end_e),
                      ThermalActive(nchunks, idxs, number_of_photons))
    /\ pc' = "chunks"
    /\ ThermalReset
    /\ UNCHANGED <<config, utilsVars, lifecycle, err, nchunks, sampled, my_kT_max, end_e>>

(* ------------------------------------------------------ PowerLawModel *)
\* line 335 / 435: the counts of the cells of a chunk
Counts(lams, u) == [i \in 1..Len(lams) |-> StochasticRound(lams[i], u[i])]

\* line 344: what u is scaled with for the cell at 0-based position i.  norm
\* is by then the pair np.modf returned (line 333), so norm[0] is the array of
\* the fractional parts of all expected counts and norm[1] that of the whole
\* parts; the integral range norm_fac of line 329 is not used
PowerLawNorm(i) == IF i = 0 THEN "modf[0]" ELSE "modf[1]"

\* lines 340-347, for the cells from i on (1-based): the energy array, the
\* bound end_e and the exception, if one ends the loop.  norm is the pair
\* np.modf returned, so norm[i] (0-based i) exists for i < 2 only and is an
\* array of num_cells entries: u*norm[i] is assigned to n entries only if its
\* shape is (n,), that is if num_cells is 1 or n
RECURSIVE PowerLawLoop(_, _, _, _, _, _)
PowerLawLoop(k, nph, i, en, s, e) ==
    IF i > Len(nph) THEN [energies |-> en, end_e |-> e, err |-> ""]
    ELSE IF nph[i] = 0 THEN PowerLawLoop(k, nph, i + 1, en, s, e)
    ELSE IF i - 1 >= 2 THEN [energies |-> en, end_e |-> s + nph[i], err |-> "IndexError"]
    ELSE IF ~(Len(nph) = 1 \/ nph[i] = Len(nph))
         THEN [energies |-> en, end_e |-> s + nph[i], err |-> "ValueError"]
    ELSE PowerLawLoop(k, nph, i + 1,
             [j \in 1..Len(en) |->
                 IF j > s /\ j <= s + nph[i]
                 THEN [cell |-> CellId(k, i), Z |-> 0, kind |-> PowerLawNorm(i - 1)]
                 ELSE en[j]],
             s + nph[i], s + nph[i])

\* line 349, 353-359: chunk[field][active_cells], as cell identities of chunk k
MaskActive(k, nph) ==
    Select([i \in 1..Len(nph) |-> CellId(k, i)], [i \in 1..Len(nph) |-> nph[i] > 0])

\* the counts of a chunk, recorded per cell identity
Record(old, k, nph) ==
    [c \in DOMAIN old \cup {CellId(k, i) : i \in 1..Len(nph)} |->
        IF \E i \in 1..Len(nph) : c = CellId(k, i)
        THEN nph[CHOOSE i \in 1..Len(nph) : c = CellId(k, i)] ELSE old[c]]

\* lines 324-359: one chunk
PowerLawChunk ==
    /\ model = "powerlaw" /\ pc = "chunks" /\ nchunks < MaxChunks
    /\ nchunks' = nchunks + 1
    /\ IF ~indexField
       THEN \* line 330: len() of the scalar norm_fac
            /\ pc' = "raised" /\ err' = "TypeError"
            /\ UNCHANGED <<photons, sampled, lam, end_e>>
       ELSE \E n \in 0..MaxCells : \E lams \in [1..n -> LamValues] :
            \E u \in [1..n -> UValues] :
            LET nph == Counts(lams, u)
                r == PowerLawLoop(nchunks + 1, nph, 1,
                                  [j \in 1..SeqSum(nph) |-> ZeroE], 0, end_e)
            IN /\ sampled' = Record(sampled, nchunks + 1, nph)
               /\ lam' = lams
               /\ end_e' = r.end_e
               /\ IF r.err # ""
                  THEN /\ pc' = "raised" /\ err' = r.err /\ photons' = photons
                  ELSE IF r.end_e = -1
                  THEN \* line 352: end_e was never bound
                       /\ pc' = "raised" /\ err' = "UnboundLocalError"
                       /\ photons' = photons
                  ELSE /\ photons' = AppendChunk(photons,
                                        Select(nph, [i \in 1..n |-> nph[i] > 0]),
                                        Slice(r.energies, 0, r.end_e),
                                        MaskActive(nchunks + 1, nph))
                       /\ UNCHANGED <<pc, err>>
    /\ UNCHANGED <<config, utilsVars, lifecycle, my_kT_max, thermalVars>>

(* --------------------------------------------------- LineEmissionModel *)
\* line 437: self.location*np.ones(n)
LineOnes(n) == [j \in 1..n |-> [cell |-> 0, Z |-> 0, kind |-> "line"]]

\* lines 439-442: one Gaussian draw over all the photons of the chunk
LineConst(en) == [j \in 1..Len(en) |-> [cell |-> 0, Z |-> 0, kind |-> "gauss"]]

\* lines 444-451, for the cells from i on: one Gaussian draw per active cell,
\* with that cell's sigma, added to the cell's range of energies
RECURSIVE LineField(_, _, _, _, _)
LineField(k, nph, i, en, s) ==
    IF i > Len(nph) THEN en
    ELSE IF nph[i] = 0 THEN LineField(k, nph, i + 1, en, s)
    ELSE LineField(k, nph, i + 1,
             [j \in 1..Len(en) |->
                 IF j > s /\ j <= s + nph[i]
                 THEN [cell |-> CellId(k, i), Z |-> 0, kind |-> "gauss"] ELSE en[j]],
             s + nph[i])

\* a sigma of None broadened like a constant one
LineEnergiesBroadened(kind, k, nph) ==
    IF kind = "field" THEN LineField(k, nph, 1, LineOnes(SeqSum(nph)), 0)
    ELSE LineConst(LineOnes(SeqSum(nph)))

\* lines 437-453: the energies of chunk k.  self.sigma is a YTQuantity
\* ("const"), None ("none") or anything else, which is used as a field name;
\* the division by 1+redshift leaves an energy that got no dE equal to
\* location/(1+redshift)
LineEnergies(kind, k, nph) ==
    IF kind = "const" THEN LineConst(LineOnes(SeqSum(nph)))
    ELSE IF kind = "none" THEN LineOnes(SeqSum(nph))
    ELSE LineField(k, nph, 1, LineOnes(SeqSum(nph)), 0)

\* lines 429-465: one chunk.  A self.sigma that is neither a YTQuantity, None
\* nor the name of a field ("tuple") makes chunk[self.sigma] fail at the first
\* active cell (line 448)
LineChunk ==
    /\ model = "line" /\ pc = "chunks" /\ nchunks < MaxChunks
    /\ nchunks' = nchunks + 1
    /\ \E n \in 0..MaxCells : \E lams \in [1..n -> LamValues] :
       \E u \in [1..n -> UValues] :
       LET nph == Counts(lams, u)
       IN /\ sampled' = Record(sampled, nchunks + 1, nph)
          /\ lam' = lams
          /\ IF sigmaKind = "tuple" /\ SeqSum(nph) > 0
             THEN /\ pc' = "raised" /\ err' = "YTFieldNotFound"
                  /\ photons' = photons
             ELSE /\ photons' = AppendChunk(photons,
                                   Select(nph, [i \in 1..n |-> nph[i] > 0]),
                                   LineEnergies(sigmaKind, nchunks + 1, nph),
                                   MaskActive(nchunks + 1, nph))
                  /\ UNCHANGED <<pc, err>>
    /\ UNCHANGED <<config, utilsVars, lifecycle, my_kT_max, end_e, thermalVars>>

(* ------------------------------------------------------------- the end *)
\* line 263: self.spectral_model.cleanup_spectrum(), of the thermal model
\* only; n counts the calls
CleanupSpectrum(m, n) == IF m = "thermal" THEN n + 1 ELSE n

\* lines 261-267, 361-363, 467-469: the data source is exhausted.  An
\* exception that ended the loop over the chunks (pc "raised") leaves
\* __call__ at once: nothing of these lines runs then
Return ==
    /\ pc = "chunks"
    /\ photons' = concatenate_photons(photons)
    /\ pc' = "returned"
    /\ cleanup_spectrum_calls' = CleanupSpectrum(model, cleanup_spectrum_calls)
    /\ UNCHANGED <<config, utilsVars, prepare_spectrum_calls, err, nchunks, sampled, lam,
                   my_kT_max, end_e, thermalVars>>

Next ==
    \/ Call
    \/ ThermalSkipChunk
    \/ ThermalBeginChunk
    \/ ThermalBin
    \/ ThermalCell
    \/ ThermalEndBin
    \/ ThermalEndChunk
    \/ PowerLawChunk
    \/ LineChunk
    \/ Return

Spec == Init /\ [][Next]_vars

(* ------------------------------------ the LineEmissionModel constructor *)
\* what the dimensions of a sigma with units can be
SigmaDims == {"energy", "velocity", "other"}

\* the forms of the sigma argument: None, a float, a YTQuantity, a
\* (value, unit) tuple whose value is a float or an int, a field name
SigmaArgs ==
    {[form |-> f, dim |-> ""] : f \in {"None", "float", "field"}}
    \cup [form : {"YTQuantity", "tuple_float", "tuple_int"}, dim : SigmaDims]

\* line 398: the test that takes sigma for a constant
IsConstantSigma(a) == a.form \in {"float", "YTQuantity", "tuple_float"}

\* lines 400-409 and parse_value: whether the conversion to keV, or else the
\* one to km/s, succeeds; a float gets the unit keV
ParsesSigma(a) == a.dim \in {"", "energy", "velocity"}

\* line 398, 412: what self.sigma is after a construction that raised nothing
StoredSigma(a) ==
    IF IsConstantSigma(a) THEN "const"
    ELSE IF a.form = "None" THEN "none"
    ELSE IF a.form = "field" THEN "field"
    ELSE "tuple"

InitLine ==
    /\ model = "line" /\ method = "invert_cdf" /\ zmetField = FALSE
    /\ indexField = TRUE /\ sigmaKind = "none"
    /\ sigma \in SigmaArgs
    /\ UtilsIdle
    /\ pc = "init"
    /\ err = "" /\ nchunks = 0 /\ photons = EmptyTable /\ sampled = EmptyTable
    /\ my_kT_max = 0 /\ end_e = -1
    /\ ThermalIdle
    /\ NotCalled

\* lines 396-414: LineEmissionModel.__init__
LineInit ==
    /\ pc = "init"
    /\ IF IsConstantSigma(sigma) /\ ~ParsesSigma(sigma)
       THEN /\ pc' = "raised" /\ err' = "RuntimeError" /\ sigmaKind' = sigmaKind
       ELSE /\ pc' = "new" /\ err' = err /\ sigmaKind' = StoredSigma(sigma)
    /\ UNCHANGED <<model, method, zmetField, indexField, sigma, utilsVars, lifecycle, nchunks,
                   photons, sampled, lam, my_kT_max, end_e, thermalVars>>

NextLine ==
    \/ LineInit
    \/ Call
    \/ LineChunk
    \/ Return

SpecLine == InitLine /\ [][NextLine]_vars

(* ------------------------------------------------ validate_parameters *)
\* the parameter names of a file, in sorted order (keys1.sort())
ParamOrder == <<"area", "exp_time", "fid_exp_time">>
ParamNames == {ParamOrder[i] : i \in 1..Len(ParamOrder)}

\* the values of a parameter: whole numbers
ParamValues == {1, 2}

\* the parameter groups whose values are drawn from V[name]
Params(V) ==
    UNION {{f \in [K -> ParamValues] : \A k \in K : f[k] \in V[k]} : K \in SUBSET ParamNames}

\* line 37: np.allclose(v1, v2, rtol=0.0, atol=1.0e-10), that is
\* |v1 - v2| <= 1.0e-10, for whole numbers: they do not differ by 1 or more
allclose(v1, v2) == ~(v1 - v2 >= 1 \/ v2 - v1 >= 1)

\* lines 30-40: the loop over zip(keys1, keys2), both of them the sorted names
\* of first, from position i of ParamOrder on; second[k2] of a name that
\* second lacks is a KeyError
RECURSIVE ValidateFrom(_, _, _, _)
ValidateFrom(p1, p2, sk, i) ==
    IF i > Len(ParamOrder) THEN ""
    ELSE LET k == ParamOrder[i]
         IN IF k \notin DOMAIN p1 \/ k \in sk THEN ValidateFrom(p1, p2, sk, i + 1)
            ELSE IF k \notin DOMAIN p2 THEN "KeyError"
            ELSE IF ~allclose(p1[k], p2[k]) THEN "RuntimeError"
            ELSE ValidateFrom(p1, p2, sk, i + 1)

\* lines 23-40: the exception validate_parameters ends with, "" for none.
\* keys1 and keys2 are both taken from first (lines 24-25)
validate_parameters(p1, p2, sk) ==
    LET keys1 == DOMAIN p1
        keys2 == DOMAIN p1
    IN IF keys1 # keys2 THEN "RuntimeError" ELSE ValidateFrom(p1, p2, sk, 1)

InitValidate ==
    /\ model = "line" /\ method = "invert_cdf" /\ zmetField = FALSE
    /\ indexField = TRUE /\ sigmaKind = "none" /\ sigma = SigmaOf("none")
    /\ first \in Params([k \in ParamNames |-> ParamValues])
    /\ second \in Params([k \in ParamNames |-> ParamValues])
    /\ skip \in {{}, {"exp_time"}, {"area", "fid_exp_time"}}
    /\ input_files = <<>> /\ add_exposure_times = FALSE /\ f_out = NoFile
    /\ pc = "validate"
    /\ err = "" /\ nchunks = 0 /\ photons = EmptyTable /\ sampled = EmptyTable
    /\ my_kT_max = 0 /\ end_e = -1
    /\ ThermalIdle
    /\ NotCalled

\* lines 23-40: one call
Validate ==
    /\ pc = "validate"
    /\ err' = validate_parameters(first, second, skip)
    /\ pc' = "validated"
    /\ UNCHANGED <<config, utilsVars, lifecycle, nchunks, photons, sampled, lam, my_kT_max, end_e,
                   thermalVars>>

NextValidate == Validate

SpecValidate == InitValidate /\ [][NextValidate]_vars

(* ---------------------------------------------------------- merge_files *)
\* the values a parameter takes in the input files
MergeValues == [k \in ParamNames |-> IF k = "exp_time" THEN {1, 2} ELSE {1}]

\* the names and the arrays of the data fields
DataNames == {"xsky", "ysky"}
DataSets ==
    {d \in UNION {[K -> {<<>>, <<1>>, <<2, 3>>, <<4>>}] : K \in SUBSET DataNames} :
        /\ "xsky" \in DOMAIN d /\ d["xsky"] # <<4>>
        /\ "ysky" \in DOMAIN d => d["ysky"] = <<4>>}

\* an input file: its groups "parameters" and "data"
Files == [parameters : Params(MergeValues), data : DataSets]

\* line 82: key.endswith("exp_time")
EndsWithExpTime(key) == key \in {"exp_time", "fid_exp_time"}

\* lines 79-83: exp_time_key after the loop over the parameters of the first
\* file, from position i of their (sorted) order on
RECURSIVE ExpTimeKeyFrom(_, _, _)
ExpTimeKeyFrom(p, i, key) ==
    IF i > Len(ParamOrder) THEN key
    ELSE ExpTimeKeyFrom(p, i + 1,
             IF ParamOrder[i] \in DOMAIN p /\ EndsWithExpTime(ParamOrder[i])
             THEN ParamOrder[i] ELSE key)

\* lines 84-85: the parameters copied to the output
CopiedParameters(p) == [k \in {n \in DOMAIN p : ~EndsWithExpTime(n)} |-> p[k]]

\* the exposure time skipped whatever add_exposure_times is
MergeSkipAlways(add, key) == {key}

\* line 87
MergeSkip(add, key) == IF add THEN {key} ELSE {}

\* lines 88-91: the first exception of the validations of the files from i on
RECURSIVE MergeValidate(_, _, _)
MergeValidate(files, sk, i) ==
    IF i > Len(files) THEN ""
    ELSE LET e == validate_parameters(files[1].parameters, files[i].parameters, sk)
         IN IF e # "" THEN e ELSE MergeValidate(files, sk, i + 1)

\* lines 96-103: tot_exp_time after the files from i on, or the KeyError of
\* a file without the parameter exp_time_key
RECURSIVE MergeExpTime(_, _, _, _, _)
MergeExpTime(files, add, key, i, tot) ==
    IF i > Len(files) THEN [err |-> "", tot |-> tot]
    ELSE IF add \/ i = 1
    THEN IF key \notin DOMAIN files[i].parameters THEN [err |-> "KeyError", tot |-> tot]
         ELSE MergeExpTime(files, add, key, i + 1,
                  IF add THEN tot + files[i].parameters[key] ELSE files[i].parameters[key])
    ELSE MergeExpTime(files, add, key, i + 1, tot)

\* the arrays of the files taken last file first
MergeDataReversed(files) ==
    [k \in UNION {DOMAIN files[i].data : i \in 1..Len(files)} |->
        Flatten([i \in 1..Len(files) |->
            IF k \in DOMAIN files[Len(files) + 1 - i].data
            THEN files[Len(files) + 1 - i].data[k] ELSE <<>>])]

\* lines 95, 104-105, 110-112: data[key] collects the arrays of the files
\* that have the field, in the order of the files, and is concatenated
MergeData(files) ==
    [k \in UNION {DOMAIN files[i].data : i \in 1..Len(files)} |->
        Flatten([i \in 1..Len(files) |->
            IF k \in DOMAIN files[i].data THEN files[i].data[k] ELSE <<>>])]

\* lines 76-114: the exception merge_files ends with and what it wrote
merge_files(files, add) ==
    LET f_in == files[1].parameters
        exp_time_key == ExpTimeKeyFrom(f_in, 1, "")
        p_out == CopiedParameters(f_in)
        v == MergeValidate(files, MergeSkip(add, exp_time_key), 2)
        t == MergeExpTime(files, add, exp_time_key, 1, 0)
    IN IF v # "" THEN [err |-> v, f_out |-> [parameters |-> p_out, data |-> EmptyTable]]
       ELSE IF t.err # ""
       THEN [err |-> t.err, f_out |-> [parameters |-> p_out, data |-> EmptyTable]]
       ELSE [err |-> "",
             f_out |-> [parameters |-> ("exp_time" :> t.tot) @@ p_out,
                        data |-> MergeData(files)]]

InitMerge ==
    /\ model = "line" /\ method = "invert_cdf" /\ zmetField = FALSE
    /\ indexField = TRUE /\ sigmaKind = "none" /\ sigma = SigmaOf("none")
    /\ first = EmptyTable /\ second = EmptyTable /\ skip = {}
    /\ input_files \in UNION {[1..n -> Files] : n \in 1..MaxFiles}
    /\ add_exposure_times \in BOOLEAN
    /\ f_out = NoFile
    /\ pc = "merge"
    /\ err = "" /\ nchunks = 0 /\ photons = EmptyTable /\ sampled = EmptyTable
    /\ my_kT_max = 0 /\ end_e = -1
    /\ ThermalIdle
    /\ NotCalled

\* lines 72-114: one call; the output file may exist while clobber is False
MergeFiles ==
    /\ pc = "merge"
    /\ \E blocked \in BOOLEAN :
          IF blocked
          THEN /\ err' = "IOError" /\ f_out' = f_out
          ELSE /\ err' = merge_files(input_files, add_exposure_times).err
               /\ f_out' = merge_files(input_files, add_exposure_times).f_out
    /\ pc' = "merged"
    /\ UNCHANGED <<config, lifecycle, first, second, skip, input_files, add_exposure_times,
                   nchunks, photons, sampled, lam, my_kT_max, end_e, thermalVars>>

NextMerge == MergeFiles

SpecMerge == InitMerge /\ [][NextMerge]_vars

(* ------------------------------------- the two sampling methods side by side *)
\* metallicities of the active cells of the comparison
EqZValues == {0, 1, 2}

\* The two methods run on the same spectrum and the same sequence of active
\* cells: cumspec_c and cumspec_m are the buffers of "invert_cdf", cspec and
\* mspec those of "accept_reject"; cell_e.cell counts the active cells of the
\* bin so far.
InitEq ==
    /\ model = "thermal" /\ method = "invert_cdf" /\ zmetField = TRUE
    /\ indexField = TRUE /\ sigmaKind = "none" /\ sigma = SigmaOf("none")
    /\ UtilsIdle
    /\ pc = "methods"
    /\ err = "" /\ nchunks = 0 /\ photons = EmptyTable /\ sampled = EmptyTable
    /\ my_kT_max = 0 /\ end_e = -1
    /\ ThermalIdle
    /\ NotCalled

\* lines 190, 212-215: the spectrum of a bin, fetched for both methods
EqBin ==
    /\ pc = "methods"
    /\ \E b \in 0..n_kT - 1 :
          /\ cspec' = Buf(cosmic_spec(b))
          /\ mspec' = metal_spec(b)
          /\ cumspec_c' = Buf(CumSpec(cosmic_spec(b)))
          /\ cumspec_m' = CumSpec(metal_spec(b))
          /\ cell_e' = [cell |-> 0, Z |-> 0, cn |-> 0, bin |-> b]
    /\ UNCHANGED <<config, utilsVars, lifecycle, pc, err, nchunks, photons, sampled, lam, my_kT_max, end_e,
                   chunk, idxs, bins, jbin, ipos, number_of_photons, energies,
                   start_e, ei, hi_write, get_spectrum_calls>>

\* lines 226-240: the next active cell of the bin, under both methods
EqCell ==
    /\ pc = "methods" /\ mspec # <<>> /\ cell_e.cell < MaxActive
    /\ \E Z \in EqZValues :
          /\ cumspec_c' = InvertCdfCell(cumspec_c, cumspec_m, Z)
          /\ cspec' = AcceptRejectCell(cspec, mspec, Z)
          /\ cell_e' = [cell |-> cell_e.cell + 1, Z |-> Z, cn |-> 1, bin |-> cell_e.bin]
    /\ UNCHANGED <<config, utilsVars, lifecycle, pc, err, nchunks, photons, sampled, lam, my_kT_max, end_e,
                   chunk, idxs, bins, jbin, ipos, number_of_photons, energies,
                   start_e, ei, hi_write, mspec, cumspec_m, get_spectrum_calls>>

NextEq ==
    \/ EqBin
    \/ EqCell

SpecEq == InitEq /\ [][NextEq]_vars

(* ================================================================ claims *)
\* photons[key] of the returned table; a key that was never appended to is
\* answered by the defaultdict with an empty list
Field(key) == IF key \in DOMAIN photons THEN photons[key].data ELSE <<>>

\* the entries of a key before concatenation, over all chunks
Entries(tab, key) == IF key \in DOMAIN tab THEN Flatten(tab[key]) ELSE <<>>

Returned == pc = "returned"

\* C1: every returned photon table has len(Energy) = sum(NumberOfPhotons),
\* for each of the three models
C1_EnergyLength ==
    Returned => Len(Field("Energy")) = SeqSum(Field("NumberOfPhotons"))

\* the thermal model returned a table of two chunks with photons
C1_Witness ==
    /\ Returned /\ model = "thermal" /\ nchunks = 2
    /\ Len(Field("Energy")) >= 3
    /\ Len(Field("NumberOfPhotons")) >= 2

\* the line model did
C1_WitnessLine ==
    Returned /\ model = "line" /\ nchunks = 2 /\ Len(Field("Energy")) >= 3

\* the power-law model did, as far as values and shapes decide
C1_WitnessPowerLaw ==
    Returned /\ model = "powerlaw" /\ nchunks = 2 /\ Len(Field("Energy")) >= 3

\* C2: a cell whose expected count is exactly 0 gets the count 0, whatever
\* the uniform draw
C2_ZeroStaysZero ==
    IF model = "thermal"
    THEN \A p \in 1..Len(lam) : lam[p] = 0 => number_of_photons[p] = 0
    ELSE \A i \in 1..Len(lam) : lam[i] = 0 => sampled[CellId(nchunks, i)] = 0

\* C3: in a returned table the per-cell fields and NumberOfPhotons have one
\* length, entry j of each is about the same cell, every count is >= 1 and
\* is the count sampled for that cell, and the cells listed are exactly the
\* cells whose sampled count is >= 1, each once
C3_PerCellFields ==
    Returned =>
        /\ \A k \in PerCellKeys : Field(k) = Field("x")
        /\ Len(Field("NumberOfPhotons")) = Len(Field("x"))
        /\ \A j \in 1..Len(Field("x")) :
              /\ Field("x")[j] \in DOMAIN sampled
              /\ Field("NumberOfPhotons")[j] >= 1
              /\ Field("NumberOfPhotons")[j] = sampled[Field("x")[j]]
        /\ {Field("x")[j] : j \in 1..Len(Field("x"))} =
               {c \in DOMAIN sampled : sampled[c] >= 1}
        /\ \A i, j \in 1..Len(Field("x")) : i # j => Field("x")[i] # Field("x")[j]

\* a thermal table with an inactive cell, and active cells that the
\* temperature sort has put in another order than the chunk's
C3_Witness ==
    /\ Returned /\ model = "thermal"
    /\ \E c \in DOMAIN sampled : sampled[c] = 0
    /\ \E j \in 1..Len(Field("x")) - 1 : Field("x")[j] > Field("x")[j + 1]

\* C4: in a returned table the photons of the j-th output cell are the
\* Energy entries at the positions sum(N[0..j-1]) .. sum(N[0..j])-1.  An
\* energy of the line model without a per-cell sigma holds nothing of a cell
C4_RunLength ==
    Returned =>
        LET N == Field("NumberOfPhotons")
            before(j) == SeqSum(SubSeq(N, 1, j - 1))
        IN /\ Len(Field("Energy")) = SeqSum(N)
           /\ Len(Field("x")) = Len(N)
           /\ \A j \in 1..Len(N) : \A q \in before(j) + 1..before(j) + N[j] :
                 IF model = "line" /\ sigmaKind # "field"
                 THEN Field("Energy")[q].cell = 0
                 ELSE Field("Energy")[q].cell = Field("x")[j]

\* a thermal table of two chunks, the first with two active cells in two bins
C4_Witness ==
    /\ Returned /\ model = "thermal" /\ nchunks = 2
    /\ Len(Field("NumberOfPhotons")) >= 3
    /\ Len(Field("Energy")) > Len(Field("NumberOfPhotons"))
    /\ Field("Energy")[1].cell # Field("Energy")[Len(Field("Energy"))].cell

C4_WitnessLine ==
    /\ Returned /\ model = "line" /\ sigmaKind = "field" /\ nchunks = 2
    /\ Len(Field("NumberOfPhotons")) >= 3
    /\ Len(Field("Energy")) > Len(Field("NumberOfPhotons"))

\* C5: the thermal model ends with RuntimeError exactly when the photons
\* sampled so far in the chunk exceed photons_per_chunk, no table is returned
\* then, no other error ends it, and no energy is written at an index
\* >= photons_per_chunk
C5_Capacity ==
    model = "thermal" =>
        /\ (err = "RuntimeError") <=> (end_e > photons_per_chunk)
        /\ err \in {"", "RuntimeError"}
        /\ (err # "") <=> (pc = "raised")
        /\ hi_write <= photons_per_chunk
        /\ ei <= photons_per_chunk

\* a chunk that sampled exactly photons_per_chunk photons was appended
C5_Witness ==
    /\ model = "thermal" /\ pc = "chunks" /\ err = ""
    /\ "Energy" \in DOMAIN photons
    /\ \E c \in 1..Len(photons["Energy"]) : Len(photons["Energy"][c]) = photons_per_chunk

\* the capacity error was raised
C5_WitnessRaised == model = "thermal" /\ err = "RuntimeError"

\* the metallicity of cell i of the current chunk
OwnZ(i) == IF zmetField THEN chunk[i].Z ELSE ZmetConst

\* the temperature bin of cell i of the current chunk
OwnBin(i) == ClampBin(Digitize(chunk[i].kT, my_kT_max))

\* C6: the count that is rounded for a thermal cell is
\* (tot_cosmic + Z_i * tot_metal) * EM_i with the cell's own Z_i and EM_i, and
\* the cell's energies are drawn with that same Z_i
C6_OwnMetallicity ==
    (model = "thermal" /\ pc \in {"bin", "cell", "raised"}) =>
        /\ \A p \in 1..Len(lam) : lam[p] # -1 =>
              lam[p] = (SeqSum(cosmic_spec(OwnBin(idxs[p])))
                        + OwnZ(idxs[p]) * SeqSum(metal_spec(OwnBin(idxs[p]))))
                       * chunk[idxs[p]].EM
        /\ \A q \in 1..Len(energies) : energies[q].kind # "zero" =>
              \E i \in 1..Len(chunk) :
                 /\ energies[q].cell = CellId(nchunks, i)
                 /\ energies[q].Z = OwnZ(i)

\* the same statement where the metallicity is one constant
C6_ConstantZmet == zmetField \/ C6_OwnMetallicity

\* the same statement where the sort leaves the cells in the chunk's order
C6_Unsorted ==
    (\E p \in 1..Len(idxs) : idxs[p] # p) \/ C6_OwnMetallicity

\* C7: with "invert_cdf" the CDF used for an active cell is the cumulative
\* sum of cosmic + Z*metal of the bin's spectrum, normalised to end at 1, for
\* the first and for every later active cell of the bin
C7_Cdf ==
    (model = "thermal" /\ method = "invert_cdf" /\ pc \in {"bin", "cell"}
        /\ cell_e # NoCell) =>
        LET C == CumSpec(cosmic_spec(cell_e.bin))
            M == CumSpec(metal_spec(cell_e.bin))
            T == C[Len(C)] + cell_e.Z * M[Len(M)]
        IN \A i \in 1..Len(C) :
              cumspec_c.v[i] * T = cumspec_c.d * (C[i] + cell_e.Z * M[i])

\* the same statement for the first active cell of a bin only
C7_FirstCell ==
    (pc = "cell" /\ Cardinality({p \in bins.bcell[jbin] + 1..ipos - 1 :
                                    number_of_photons[p] > 0}) = 1)
        => C7_Cdf

\* C8: for the same spectrum and the same sequence of active cells, the
\* probability mass per channel of "invert_cdf" (the successive differences
\* of its CDF) is the probability per channel of "accept_reject", for every
\* active cell of a bin
C8_SameMass ==
    (pc = "methods" /\ cell_e.cn > 0) =>
        \A i \in 1..nchan :
            (cumspec_c.v[i + 1] - cumspec_c.v[i]) * cspec.d = cspec.v[i] * cumspec_c.d

\* a third active cell of a bin with metal lines, after cells of other
\* metallicities
C8_Witness ==
    /\ pc = "methods" /\ cell_e.cell >= 3 /\ cell_e.Z = 2
    /\ SeqSum(mspec) > 0
    /\ cspec.d > SeqSum(cosmic_spec(cell_e.bin)) + 2 * SeqSum(mspec)

\* no expected count of the chunk is positive: no cell, or zero everywhere
NoPhotonExpected(l) == \A i \in 1..Len(l) : l[i] = 0

\* the number of entries of every field is the same in both tables
SameSizes(t1, t2) == \A k \in AllKeys : Len(Entries(t1, k)) = Len(Entries(t2, k))

\* C9: a chunk that yields no photon, for want of cells or because every
\* expected count is zero, raises no error and adds no entry to any field
C9_EmptyChunk ==
    [][/\ (model = "thermal" /\ pc' = "raised") => ~NoPhotonExpected(lam')
       /\ (model = "thermal" /\ pc = "bin" /\ pc' = "chunks" /\ NoPhotonExpected(lam))
             => SameSizes(photons, photons')
       /\ (model = "thermal" /\ pc = "chunks" /\ nchunks' = nchunks + 1 /\ pc' = "chunks")
             => SameSizes(photons, photons')
       /\ ((model = "line" \/ (model = "powerlaw" /\ indexField))
             /\ pc = "chunks" /\ nchunks' = nchunks + 1 /\ NoPhotonExpected(lam'))
             => (pc' = "chunks" /\ SameSizes(photons, photons'))
      ]_vars

\* C10: the returned table holds each of the nine fields as a flat array
\* with its unit, whatever the data source yielded
C10_AllFields ==
    Returned =>
        /\ DOMAIN photons = AllKeys
        /\ \A k \in DOMAIN photons :
              /\ photons[k].units = photon_units(k)
              /\ k = "Energy" \/ photons[k].data \in Seq(Nat)

\* the same statement for the runs in which a chunk was appended
C10_AfterAppend ==
    (\A k \in AllKeys : k \notin DOMAIN photons) \/ C10_AllFields

\* C11: with sigma = None every energy of the line model is
\* location/(1+redshift): none of them got a Gaussian dE, in the partial
\* tables and in the returned one
C11_Unbroadened ==
    (model = "line" /\ sigmaKind = "none" /\ "Energy" \in DOMAIN photons) =>
        LET E == IF Returned THEN photons["Energy"].data ELSE Flatten(photons["Energy"])
        IN \A q \in 1..Len(E) : E[q].kind = "line" /\ E[q].cell = 0

\* a returned table of the unbroadened line, two chunks with photons
C11_Witness ==
    /\ Returned /\ model = "line" /\ sigmaKind = "none" /\ nchunks = 2
    /\ Len(Field("Energy")) >= 3
    /\ Len(photons["NumberOfPhotons"].data) >= 2

\* C12: a sigma whose units are neither an energy nor a velocity is
\* rejected by the constructor, whatever the form and the numeric type of the
\* value, and a constructed model does not fail in generation over its sigma
C12_SigmaUnits ==
    model = "line" =>
        /\ (sigma.dim = "other" /\ pc # "init") => (pc = "raised" /\ nchunks = 0)
        /\ (sigma.form # "field" /\ nchunks > 0) => err = ""

\* the same statement for the forms that line 398 takes for a constant
C12_FloatValued == ~IsConstantSigma(sigma) \/ C12_SigmaUnits

\* the constructor rejected a sigma
C12_Rejected == model = "line" /\ err = "RuntimeError" /\ sigma.form = "tuple_float"

\* C13: with a float index the power-law model processes a chunk without
\* error, as it does with an index field
C13_FloatIndex ==
    (model = "powerlaw" /\ ~indexField) => (pc # "raised" /\ err = "")

\* C14: every active cell of the power-law model gets its energies, each
\* drawn as (emin^(1-index_i) + u*norm_i)^(1/(1-index_i)) with the cell's own
\* integral range norm_i
C14_OwnRange ==
    (model = "powerlaw" /\ indexField) =>
        /\ err \notin {"IndexError", "ValueError"}
        /\ \A q \in 1..Len(Entries(photons, "Energy")) :
              pc # "returned" => Entries(photons, "Energy")[q].kind = "norm_fac"
        /\ \A q \in 1..Len(Field("Energy")) :
              pc = "returned" => Field("Energy")[q].kind = "norm_fac"

\* the same statement about the errors alone
C14_NoError ==
    (model = "powerlaw" /\ indexField) => err \notin {"IndexError", "ValueError"}

\* what the power-law model yields for a chunk with the counts nph when no
\* chunk was processed before it
PowerLawAlone(nph) ==
    PowerLawLoop(1, nph, 1, [j \in 1..SeqSum(nph) |-> ZeroE], 0, -1)

\* C15: whether the processing of a chunk ends in an error depends on the
\* chunk and its draws alone, not on the chunks processed before it
C15_ChunkAlone ==
    [][(model = "powerlaw" /\ indexField /\ pc = "chunks" /\ nchunks' = nchunks + 1) =>
          LET nph == [i \in 1..Len(lam') |-> sampled'[CellId(nchunks', i)]]
              r == PowerLawAlone(nph)
          IN (pc' = "raised") <=> (r.err # "" \/ r.end_e = -1)
      ]_vars

\* the same statement for the line model: a chunk fails only over the sigma
\* that the constructor stored
C15_LineAlone ==
    [][(model = "line" /\ pc = "chunks" /\ nchunks' = nchunks + 1) =>
          ((pc' = "raised") <=> (sigmaKind = "tuple" /\
                                 \E i \in 1..Len(lam') : sampled'[CellId(nchunks', i)] > 0))
      ]_vars

\* C18: validate_parameters raises RuntimeError exactly when the two inputs
\* differ in their parameter names or in the value of a name not in skip,
\* and otherwise returns normally
C18_Validate ==
    pc = "validated" =>
        /\ err \in {"", "RuntimeError"}
        /\ (err = "RuntimeError") <=>
              \/ DOMAIN first # DOMAIN second
              \/ \E k \in (DOMAIN first \cap DOMAIN second) \ skip : first[k] # second[k]

\* the same statement for inputs with the same names
C18_SameNames == (DOMAIN first # DOMAIN second) \/ C18_Validate

\* the number of entries of field k in the input files before file i
EntriesBefore(k, i) ==
    SeqSum([j \in 1..i - 1 |->
        IF k \in DOMAIN input_files[j].data THEN Len(input_files[j].data[k]) ELSE 0])

\* C16: a merge that ends without an exception wrote every data field of
\* the inputs, each as the concatenation of that field of the files in the
\* order listed: entry q of file i is entry EntriesBefore(k, i) + q of the
\* merged field, whose length is the sum of the lengths
C16_Concatenation ==
    (pc = "merged" /\ err = "") =>
        /\ DOMAIN f_out.data = UNION {DOMAIN input_files[i].data : i \in 1..Len(input_files)}
        /\ \A k \in DOMAIN f_out.data :
              /\ Len(f_out.data[k]) = EntriesBefore(k, Len(input_files) + 1)
              /\ \A i \in 1..Len(input_files) : k \in DOMAIN input_files[i].data =>
                    \A q \in 1..Len(input_files[i].data[k]) :
                        f_out.data[k][EntriesBefore(k, i) + q] = input_files[i].data[k][q]

\* two files merged whose first field differs and is longer in the first
C16_Witness ==
    /\ pc = "merged" /\ err = "" /\ Len(input_files) = 2
    /\ input_files[1].data["xsky"] = <<2, 3>>
    /\ input_files[2].data["xsky"] = <<1>>
    /\ "ysky" \in DOMAIN input_files[2].data /\ "ysky" \notin DOMAIN input_files[1].data

\* the parameters of file f whose name ends with exp_time
ExposureNames(f) == {k \in DOMAIN f.parameters : EndsWithExpTime(k)}

\* the exposure time of a file that has exactly one such parameter
ExposureOf(f) == f.parameters[CHOOSE k \in ExposureNames(f) : TRUE]

\* every input file has one exposure time
OneExposureEach ==
    \A i \in 1..Len(input_files) : Cardinality(ExposureNames(input_files[i])) = 1

C17_WitnessRefused ==
    /\ pc = "merged" /\ err = "RuntimeError" /\ ~add_exposure_times
    /\ OneExposureEach
    /\ ExposureOf(input_files[1]) # ExposureOf(input_files[2])

\* without add_exposure_times, files of one exposure time were merged
C17_WitnessCommon ==
    /\ pc = "merged" /\ err = "" /\ ~add_exposure_times /\ Len(input_files) = 2
    /\ OneExposureEach /\ f_out.parameters["exp_time"] = 2

\* the upper edge of the temperature grid of the pass
TopEdge == IF my_kT_max > kT_max THEN my_kT_max ELSE kT_max

\* edge b of n_kT equal bins over [kT_min, TopEdge] is at or below kT
EdgeAtOrBelow(b, kT) == kT_min * n_kT + b * (TopEdge - kT_min) <= kT * n_kT

\* the bin of a temperature: bin b holds [edge b, edge b+1), the first bin
\* also what is below kT_min and the last also the upper edge
TrueBin(kT) ==
    CHOOSE b \in 0..n_kT - 1 :
        /\ b = 0 \/ EdgeAtOrBelow(b, kT)
        /\ b = n_kT - 1 \/ ~EdgeAtOrBelow(b + 1, kT)

\* the middle of bin b, as a numerator over 2*n_kT
MidOfBin(b) == 2 * n_kT * kT_min + b * 2 * (TopEdge - kT_min) + (TopEdge - kT_min)

\* C19: within a chunk get_spectrum is called with the middle temperature of
\* the bin of a cell of the chunk, never twice with the same one, and when
\* the chunk is done it was called for the bin of every cell
C19_OncePerBin ==
    (model = "thermal" /\ pc \in {"bin", "cell", "raised"}) =>
        /\ \A c \in 1..Len(get_spectrum_calls) :
              \E i \in 1..Len(chunk) :
                  get_spectrum_calls[c] = MidOfBin(TrueBin(chunk[i].kT))
        /\ \A c, d \in 1..Len(get_spectrum_calls) :
              c # d => get_spectrum_calls[c] # get_spectrum_calls[d]
        /\ (pc = "bin" /\ jbin > Len(bins.bcell)) =>
              \A i \in 1..Len(chunk) : \E c \in 1..Len(get_spectrum_calls) :
                  get_spectrum_calls[c] = MidOfBin(TrueBin(chunk[i].kT))

\* a chunk is done whose two cells are below kT_min and at the upper edge,
\* with a dataset maximum above kT_max
C19_Witness ==
    /\ model = "thermal" /\ pc = "bin" /\ jbin > Len(bins.bcell)
    /\ my_kT_max > kT_max
    /\ Len(chunk) = 2 /\ Len(get_spectrum_calls) = 2
    /\ \E i, j \in 1..2 : chunk[i].kT < kT_min /\ chunk[j].kT = my_kT_max
    /\ get_spectrum_calls[1] = MidOfBin(0) /\ get_spectrum_calls[2] = MidOfBin(n_kT - 1)

\* a chunk is done whose two cells shared one bin and one call
C19_WitnessShared ==
    /\ model = "thermal" /\ pc = "bin" /\ jbin > Len(bins.bcell)
    /\ Len(chunk) = 2 /\ Len(get_spectrum_calls) = 1

\* C20: while a chunk is processed, the ranges [bcell_j, ecell_j) are
\* non-empty, follow one another from 0 to num_cells, the unique bin indices
\* ascend, the cells at the sorted positions of range j are the cells of bin
\* kT_idxs[j], the counts of a position are sampled in the step of its range
\* and no other, and an active cell is given the spectrum of its own bin
C20_Partition ==
    (model = "thermal" /\ pc \in {"bin", "cell"}) =>
        LET m == Len(bins.bcell)
            done == IF pc = "cell" THEN jbin ELSE jbin - 1
        IN /\ m >= 1 /\ Len(bins.ecell) = m /\ Len(bins.kT_idxs) = m
           /\ bins.bcell[1] = 0 /\ bins.ecell[m] = Len(chunk)
           /\ \A j \in 1..m : bins.bcell[j] < bins.ecell[j]
           /\ \A j \in 1..m - 1 :
                 /\ bins.ecell[j] = bins.bcell[j + 1]
                 /\ bins.kT_idxs[j] < bins.kT_idxs[j + 1]
           /\ \A i, j \in 1..Len(idxs) : i # j => idxs[i] # idxs[j]
           /\ \A j \in 1..m : \A p \in bins.bcell[j] + 1..bins.ecell[j] :
                 TrueBin(chunk[idxs[p]].kT) = bins.kT_idxs[j]
           /\ \A p \in 1..Len(lam) :
                 (lam[p] # -1) <=> (done >= 1 /\ p <= bins.ecell[done])
           /\ pc = "cell" => (ipos > bins.bcell[jbin] /\ ipos <= bins.ecell[jbin] + 1)
           /\ (pc = "cell" /\ cell_e # NoCell) =>
                 /\ \E i \in 1..Len(chunk) :
                       /\ cell_e.cell = CellId(nchunks, i)
                       /\ cell_e.bin = TrueBin(chunk[i].kT)
                 /\ mspec = metal_spec(cell_e.bin)

\* the second of two ranges is being processed, in a chunk that the sort
\* reordered
C20_Witness ==
    /\ model = "thermal" /\ pc = "cell" /\ jbin = 2 /\ Len(bins.bcell) = 2
    /\ idxs[1] = 2
    /\ cell_e # NoCell

\* one range of two cells
C20_WitnessOneRange ==
    /\ model = "thermal" /\ pc = "cell" /\ Len(bins.bcell) = 1 /\ bins.ecell[1] = 2

\* C21: in a pass of the thermal model prepare_spectrum is called once,
\* before any get_spectrum call, and cleanup_spectrum once, after the last
\* get_spectrum call, when the pass returns a table and when it ends with the
\* capacity error
C21_Lifecycle ==
    model = "thermal" =>
        /\ pc = "new" => (prepare_spectrum_calls = 0 /\ cleanup_spectrum_calls = 0
                          /\ get_spectrum_calls = <<>>)
        /\ pc \in {"chunks", "bin", "cell"} =>
              (prepare_spectrum_calls = 1 /\ cleanup_spectrum_calls = 0)
        /\ pc \in {"returned", "raised"} =>
              (prepare_spectrum_calls = 1 /\ cleanup_spectrum_calls = 1)

\* the same statement for the passes that return a table
C21_Returned == pc = "raised" \/ C21_Lifecycle

\* a pass returned a table after get_spectrum calls in two chunks
C21_WitnessReturned ==
    /\ model = "thermal" /\ Returned /\ nchunks = 2
    /\ Len(Field("NumberOfPhotons")) >= 2
    /\ cleanup_spectrum_calls = 1

====
